---- MODULE Spec2Model ----
(***************************************************************************)
(* DruidMetadataExtractor (databuilder/extractor/druid_metadata_extractor) *)
(* as a state machine.  One instance is configured by init(conf) and then  *)
(* pulled with extract(); extract() drives the generator _get_extract_iter *)
(* which groups, with itertools.groupby, the rows that                     *)
(* _get_raw_extract_iter pulls one at a time from the SQLAlchemyExtractor. *)
(*                                                                         *)
(* Python values are modelled as follows.  A dict (a row, a configuration) *)
(* is a function whose DOMAIN is the set of keys it holds, so a missing    *)
(* key is a missing element of the DOMAIN.  None is the empty function,    *)
(* which is falsy like None.  The TableKey namedtuple is a 2-tuple.  A C   *)
(* level slot of groupby that is NULL or holds an object is a sequence of  *)
(* length 0 or 1.                                                          *)
(***************************************************************************)
EXTENDS Integers, Sequences, FiniteSets, TLC

VARIABLES
    conf,           \* the ConfigTree the caller passes to init
    rows,           \* the result set the Row Source will deliver, in order
    failAt,         \* the Row Source call that raises (0: none does)
    phase,          \* "constructed" before init(conf), "ready" after
    _cluster,       \* self._cluster
    sql_stmt,       \* self.sql_stmt
    alchemy_sql,    \* the statement self._alchemy_extractor was initialised with
    _extract_iter,  \* self._extract_iter: <<>> is None, <<g>> a generator g
    srcCalls,       \* number of self._alchemy_extractor.extract() calls made
    srcEnded,       \* the Row Source has returned its end-of-data value
    iterCreated,    \* number of _get_extract_iter() calls made
    returned        \* outcome of every extract() call so far, in call order

vars == <<conf, rows, failAt, phase, _cluster, sql_stmt, alchemy_sql,
          _extract_iter, srcCalls, srcEnded, iterCreated, returned>>

(***************************************************************************)
(* Bounds of the model.                                                    *)
(***************************************************************************)
\* the longest result set
MaxRows == 3

\* the number of extract() calls followed that return no Table Entity
MaxIdleCalls == 3

(***************************************************************************)
(* Python's None and the truth value of a row (None and {} are falsy).     *)
(***************************************************************************)
None == <<>>

Truthy(v) == DOMAIN v # {}

(***************************************************************************)
(* Configuration keys and defaults.                                        *)
(***************************************************************************)
WHERE_CLAUSE_SUFFIX_KEY == "where_clause_suffix"

CLUSTER_KEY == "cluster"

EXTRACT_SQL == "extract_sql"

ScopedExtractSqlKey == "extractor.sqlalchemy.extract_sql"

DEFAULT_CONFIG == (WHERE_CLAUSE_SUFFIX_KEY :> <<" ">>) @@ (CLUSTER_KEY :> "gold")

\* The merge with its arguments swapped: the fallback's value wins.
fallback_wins(c, fallback) ==
    [k \in (DOMAIN c) \cup (DOMAIN fallback) |->
        IF k \in DOMAIN fallback THEN fallback[k] ELSE c[k]]

\* ConfigTree.with_fallback: every key of c, and the keys of fallback c lacks.
with_fallback(c, fallback) ==
    [k \in (DOMAIN c) \cup (DOMAIN fallback) |->
        IF k \in DOMAIN c THEN c[k] ELSE fallback[k]]

\* ConfigTree.get_string(key, default=d) of a string-valued entry.
get_string(c, key, d) == IF key \in DOMAIN c THEN c[key] ELSE d

\* Scoped.get_scoped_conf(conf, 'extractor.sqlalchemy'): the entries under the
\* collaborator's scope, with the scope prefix removed.
get_scoped_conf(c) ==
    IF ScopedExtractSqlKey \in DOMAIN c
    THEN (EXTRACT_SQL :> c[ScopedExtractSqlKey])
    ELSE [k \in {} |-> <<>>]

(***************************************************************************)
(* SQL text is a sequence of tokens.  SQL_STATEMENT is the template; the   *)
(* token "{where_clause_suffix}" is its replacement field.                 *)
(***************************************************************************)
SQL_STATEMENT ==
    << "SELECT TABLE_SCHEMA as schema, TABLE_NAME as name, COLUMN_NAME as col_name, DATA_TYPE as col_type, ORDINAL_POSITION as col_sort_order",
       "FROM INFORMATION_SCHEMA.COLUMNS",
       "{where_clause_suffix}",
       "order by TABLE_SCHEMA, TABLE_NAME, CAST(ORDINAL_POSITION AS int)" >>

\* the template's tokens other than its replacement field
NotReplacementField(t) == t # "{where_clause_suffix}"

\* The suffix appended to the end of the query instead of put in its field.
format_appended(template, suffix) ==
    SelectSeq(template, NotReplacementField) \o suffix

RECURSIVE format(_, _)
\* str.format(where_clause_suffix=suffix): every replacement field of the
\* template becomes the tokens of suffix, everything else is copied.
format(template, suffix) ==
    IF template = <<>> THEN <<>>
    ELSE (IF Head(template) = "{where_clause_suffix}"
          THEN suffix ELSE <<Head(template)>>) \o format(Tail(template), suffix)

(***************************************************************************)
(* The rows of the result set.                                             *)
(***************************************************************************)
Fields == {"schema", "name", "col_name", "col_type", "col_sort_order"}

Keys == { <<"s1", "t1">>, <<"s1", "t2">>, <<"s2", "t1">> }

Cols == { <<"a", "STRING", 1>>, <<"b", "LONG", 2>> }

MakeRow(k, c) ==
    [schema |-> k[1], name |-> k[2],
     col_name |-> c[1], col_type |-> c[2], col_sort_order |-> c[3]]

BaseRows == { MakeRow(k, c) : k \in Keys, c \in Cols }

\* The row r without its field f: a malformed row.
DropField(r, f) == [g \in (DOMAIN r) \ {f} |-> r[g]]

WellFormed(r) == DOMAIN r = Fields

(***************************************************************************)
(* Results of the calls below: the machine state after the call, how the   *)
(* call ended ("ok": a value, "stop": StopIteration, "raise": any other    *)
(* exception, named by err) and the value.                                 *)
(***************************************************************************)
Res(s, out, err, val) == [st |-> s, out |-> out, err |-> err, val |-> val]

(***************************************************************************)
(* SQLAlchemyExtractor.extract(): the next row of the result set, None     *)
(* after the last one; the call numbered failAt raises.                    *)
(***************************************************************************)
AlchemyExtract(s) ==
    LET n == s.srcCalls + 1
    IN  IF n = failAt
        THEN Res([s EXCEPT !.srcCalls = n], "raise", "SourceError", None)
        ELSE IF n <= Len(rows)
        THEN Res([s EXCEPT !.srcCalls = n], "ok", "", rows[n])
        ELSE Res([s EXCEPT !.srcCalls = n, !.srcEnded = TRUE], "ok", "", None)

(***************************************************************************)
(* next() of the generator _get_raw_extract_iter.  A finished generator    *)
(* raises StopIteration without running any code; otherwise the generator  *)
(* calls the Row Source and RawYield is what it does with the call's       *)
(* outcome r: "while row: yield row".                                      *)
(***************************************************************************)
\* The loop with its test after the yield: the end-of-data value is yielded too.
RawYieldUntested(r) ==
    IF r.out = "raise"
    THEN Res([r.st EXCEPT !.raw = "finished"], "raise", r.err, None)
    ELSE IF Truthy(r.val)
    THEN Res([r.st EXCEPT !.raw = "suspended"], "ok", "", r.val)
    ELSE Res([r.st EXCEPT !.raw = "finished"], "ok", "", r.val)

RawYield(r) ==
    IF r.out = "raise"
    THEN Res([r.st EXCEPT !.raw = "finished"], "raise", r.err, None)
    ELSE IF Truthy(r.val)
    THEN Res([r.st EXCEPT !.raw = "suspended"], "ok", "", r.val)
    ELSE Res([r.st EXCEPT !.raw = "finished"], "stop", "", None)

\* The generator that calls the Row Source again after it has finished.
RawNextRestarted(s) == RawYield(AlchemyExtract(s))

RawNext(s) ==
    IF s.raw = "finished" THEN Res(s, "stop", "", None)
    ELSE RawYield(AlchemyExtract(s))

(***************************************************************************)
(* _get_table_key(row): TableKey(schema, table_name) of a truthy row, a    *)
(* KeyError when the row lacks one of the two fields, None for a falsy row.*)
(***************************************************************************)
TableKey(schema, table_name) == <<schema, table_name>>

\* The key without the schema: tables of one name in two schemas share it.
table_key_name_only(row) ==
    IF Truthy(row)
    THEN IF {"schema", "name"} \subseteq DOMAIN row
         THEN [out |-> "ok", err |-> "", val |-> <<row["name"]>>]
         ELSE [out |-> "raise", err |-> "KeyError", val |-> None]
    ELSE [out |-> "ok", err |-> "", val |-> None]

\* The key without the table name: all tables of a schema share it.
table_key_schema_only(row) ==
    IF Truthy(row)
    THEN IF {"schema", "name"} \subseteq DOMAIN row
         THEN [out |-> "ok", err |-> "", val |-> <<row["schema"]>>]
         ELSE [out |-> "raise", err |-> "KeyError", val |-> None]
    ELSE [out |-> "ok", err |-> "", val |-> None]

_get_table_key(row) ==
    IF Truthy(row)
    THEN IF {"schema", "name"} \subseteq DOMAIN row
         THEN [out |-> "ok", err |-> "", val |-> TableKey(row["schema"], row["name"])]
         ELSE [out |-> "raise", err |-> "KeyError", val |-> None]
    ELSE [out |-> "ok", err |-> "", val |-> None]

(***************************************************************************)
(* itertools.groupby over RawNext with key _get_table_key.  currkey,       *)
(* currvalue and tgtkey are the slots of the groupby object.               *)
(***************************************************************************)
\* groupby_step, second half: hold the fetched row with its key k; a key
\* function that raised leaves the slots alone and the row is dropped.
groupby_hold(s, row, k) ==
    IF k.out = "raise" THEN Res(s, "raise", k.err, None)
    ELSE Res([s EXCEPT !.currvalue = <<row>>, !.currkey = <<k.val>>], "ok", "", None)

\* groupby_step, first half: r is the outcome of next() on the raw iterator.
groupby_keyed(r) ==
    IF r.out # "ok" THEN r ELSE groupby_hold(r.st, r.val, _get_table_key(r.val))

\* groupby_step: fetch one row and compute its key.
groupby_step(s) == groupby_keyed(RawNext(s))

RECURSIVE groupby_next(_)
\* the skipping loop of next(groupby) after a step that ended as r
groupby_skip(r) == IF r.out # "ok" THEN r ELSE groupby_next(r.st)

\* next(groupby): skip to the first row whose key differs from the target key,
\* make its key the target key and hand out its group.
groupby_next(s) ==
    IF Len(s.currkey) > 0 /\ (Len(s.tgtkey) = 0 \/ s.tgtkey # s.currkey)
    THEN Res([s EXCEPT !.tgtkey = s.currkey], "ok", "", None)
    ELSE groupby_skip(groupby_step(s))

\* The group that drops the row read ahead when it ends at a different key.
grouper_deliver_dropped(r) ==
    IF r.out # "ok" THEN r
    ELSE IF r.st.currkey # r.st.tgtkey
    THEN Res([r.st EXCEPT !.currvalue = <<>>], "stop", "", None)
    ELSE Res([r.st EXCEPT !.currvalue = <<>>], "ok", "", r.st.currvalue[1])

\* next(group), second half: hand out the held row if its key is the target
\* key; the group ends at a different key or at the end of data.
grouper_deliver(r) ==
    IF r.out # "ok" THEN r
    ELSE IF r.st.currkey # r.st.tgtkey THEN Res(r.st, "stop", "", None)
    ELSE Res([r.st EXCEPT !.currvalue = <<>>], "ok", "", r.st.currvalue[1])

\* next(group): fetch a row first when none is held.
grouper_next(s) ==
    grouper_deliver(IF Len(s.currvalue) = 0 THEN groupby_step(s)
                    ELSE Res(s, "ok", "", None))

(***************************************************************************)
(* ColumnMetadata(name=row['col_name'], description='',                    *)
(*                col_type=row['col_type'], sort_order=row['col_sort_order']) *)
(***************************************************************************)
ColumnMetadata(row) ==
    IF ~Truthy(row)
    THEN [out |-> "raise", err |-> "TypeError", val |-> None]
    ELSE IF {"col_name", "col_type", "col_sort_order"} \subseteq DOMAIN row
    THEN [out |-> "ok", err |-> "",
          val |-> [name |-> row["col_name"], description |-> "",
                   type |-> row["col_type"], sort_order |-> row["col_sort_order"]]]
    ELSE [out |-> "raise", err |-> "KeyError", val |-> None]

\* columns.insert(0, column)
PrependColumn(columns, column) == <<column>> \o columns

\* columns.append(column)
AppendColumn(columns, column) == Append(columns, column)

\* The entity with the table name copied into its description.
TableMetadataDescribed(cluster, last_row, columns) ==
    [database |-> "druid", cluster |-> cluster,
     schema |-> last_row["schema"], name |-> last_row["name"],
     description |-> last_row["name"], columns |-> columns]

(***************************************************************************)
(* TableMetadata(database='druid', cluster=self._cluster,                  *)
(*               schema=last_row['schema'], name=last_row['name'],         *)
(*               description='', columns=columns)                          *)
(***************************************************************************)
TableMetadata(cluster, last_row, columns) ==
    [database |-> "druid", cluster |-> cluster,
     schema |-> last_row["schema"], name |-> last_row["name"],
     description |-> "", columns |-> columns]

(***************************************************************************)
(* for row in group: last_row = row; columns.append(ColumnMetadata(...))   *)
(***************************************************************************)
RECURSIVE group_loop(_, _)
\* the append of the loop body: c is the outcome of building the column
loop_append(s, c, columns) ==
    IF c.out = "raise" THEN Res(s, "raise", c.err, None)
    ELSE group_loop(s, AppendColumn(columns, c.val))

\* The loop with a failure of the group treated as the end of the group.
loop_body_partial(r, columns) ==
    IF r.out # "ok" THEN Res(r.st, "ok", "", columns)
    ELSE loop_append([r.st EXCEPT !.last_row = r.val], ColumnMetadata(r.val), columns)

\* one turn of the loop: r is the outcome of next(group)
loop_body(r, columns) ==
    IF r.out = "raise" THEN r
    ELSE IF r.out = "stop" THEN Res(r.st, "ok", "", columns)
    ELSE loop_append([r.st EXCEPT !.last_row = r.val], ColumnMetadata(r.val), columns)

group_loop(s, columns) == loop_body(grouper_next(s), columns)

(***************************************************************************)
(* next() of the generator _get_extract_iter: run it to its next yield, to *)
(* its end (StopIteration) or to an exception, which finishes it.          *)
(***************************************************************************)
\* The entity named after the row groupby holds, the one that ended the run.
gen_yield_lookahead(l, cluster) ==
    IF l.out # "ok"
    THEN Res([l.st EXCEPT !.gen = "finished"], l.out, l.err, None)
    ELSE Res([l.st EXCEPT !.gen = "suspended"], "ok", "",
             TableMetadata(cluster,
                           IF Len(l.st.currvalue) > 0
                           THEN l.st.currvalue[1] ELSE l.st.last_row,
                           l.val))

\* The generator that returns after its first entity instead of going on.
gen_yield_returned(l, cluster) ==
    IF l.out # "ok"
    THEN Res([l.st EXCEPT !.gen = "finished"], l.out, l.err, None)
    ELSE Res([l.st EXCEPT !.gen = "finished"], "ok", "",
             TableMetadata(cluster, l.st.last_row, l.val))

\* The generator that fetches one more row before it yields.
gen_yield_prefetched(l, cluster) ==
    IF l.out # "ok"
    THEN Res([l.st EXCEPT !.gen = "finished"], l.out, l.err, None)
    ELSE Res([groupby_step(l.st).st EXCEPT !.gen = "suspended"], "ok", "",
             TableMetadata(cluster, l.st.last_row, l.val))

\* The generator that survives a failure of its loop and can be resumed.
gen_yield_resumable(l, cluster) ==
    IF l.out # "ok"
    THEN Res([l.st EXCEPT !.gen = IF l.out = "raise" THEN "suspended" ELSE "finished"],
             l.out, l.err, None)
    ELSE Res([l.st EXCEPT !.gen = "suspended"], "ok", "",
             TableMetadata(cluster, l.st.last_row, l.val))

\* the yield: l is the outcome of the loop over the group
gen_yield(l, cluster) ==
    IF l.out # "ok"
    THEN Res([l.st EXCEPT !.gen = "finished"], l.out, l.err, None)
    ELSE Res([l.st EXCEPT !.gen = "suspended"], "ok", "",
             TableMetadata(cluster, l.st.last_row, l.val))

\* the outer loop: g is the outcome of next(groupby)
gen_group(g, cluster) ==
    IF g.out # "ok"
    THEN Res([g.st EXCEPT !.gen = "finished"], g.out, g.err, None)
    ELSE gen_yield(group_loop(g.st, <<>>), cluster)

gen_next(s, cluster) ==
    IF s.gen = "finished" THEN Res(s, "stop", "", None)
    ELSE gen_group(groupby_next(s), cluster)

(***************************************************************************)
(* The generator object made by self._get_extract_iter(): creating it runs *)
(* none of its code.                                                       *)
(***************************************************************************)
_get_extract_iter ==
    [gen |-> "unstarted", raw |-> "unstarted",
     currkey |-> <<>>, tgtkey |-> <<>>, currvalue |-> <<>>, last_row |-> None]

\* The test that never finds an iterator: every call makes a new one.
AlwaysNewIter(it) == TRUE

\* "not self._extract_iter": None is falsy, a generator object is truthy.
NotExtractIter(it) == Len(it) = 0

\* The iterator made at configuration time.
EagerExtractIter == <<_get_extract_iter>>

\* self._extract_iter = None, the last statement of init
InitialExtractIter == <<>>

\* The handler that catches every exception: a failure becomes the sentinel.
ExtractOutcomeCatchAll(r) ==
    IF r.out = "ok"
    THEN [kind |-> "entity", table |-> <<r.val>>, error |-> "", srcCalls |-> r.st.srcCalls]
    ELSE [kind |-> "sentinel", table |-> <<>>, error |-> "", srcCalls |-> r.st.srcCalls]

\* try: return next(self._extract_iter) / except StopIteration: return None.
\* The outcome of the extract() call whose next() ended as r.
ExtractOutcome(r) ==
    IF r.out = "ok"
    THEN [kind |-> "entity", table |-> <<r.val>>, error |-> "", srcCalls |-> r.st.srcCalls]
    ELSE IF r.out = "stop"
    THEN [kind |-> "sentinel", table |-> <<>>, error |-> "", srcCalls |-> r.st.srcCalls]
    ELSE [kind |-> "raised", table |-> <<>>, error |-> r.err, srcCalls |-> r.st.srcCalls]

NotEntity(o) == o.kind # "entity"

(***************************************************************************)
(* Initial states: an instance that has been constructed but not           *)
(* configured, a caller configuration, and a result set the Row Source     *)
(* will deliver: up to MaxRows rows and at most one fault, which is a row   *)
(* lacking one field or a fetch that raises.  Nothing is read after the    *)
(* first fault, so a second one would never be met.                        *)
(***************************************************************************)
EmptyConf == [k \in {} |-> ""]

Confs == { EmptyConf, (CLUSTER_KEY :> "prod") }

\* the faults of a result set of n rows: <<kind, position, field>>
Faults(n) ==
    {<<"none", 0, "">>}
        \cup { <<"fetch", i, "">> : i \in 1..(n + 1) }
        \cup { <<"row", i, f>> : i \in 1..n, f \in Fields }

Init ==
    /\ conf \in Confs
    /\ \E n \in 0..MaxRows : \E base \in [1..n -> BaseRows] : \E fault \in Faults(n) :
          /\ rows = [i \in 1..n |->
                        IF fault[1] = "row" /\ i = fault[2]
                        THEN DropField(base[i], fault[3]) ELSE base[i]]
          /\ failAt = IF fault[1] = "fetch" THEN fault[2] ELSE 0
    /\ phase = "constructed"
    /\ _cluster = ""
    /\ sql_stmt = <<>>
    /\ alchemy_sql = <<>>
    /\ _extract_iter = <<>>
    /\ srcCalls = 0
    /\ srcEnded = FALSE
    /\ iterCreated = 0
    /\ returned = <<>>

(***************************************************************************)
(* init(conf)                                                              *)
(***************************************************************************)
init ==
    /\ phase = "constructed"
    /\ LET c == with_fallback(conf, DEFAULT_CONFIG)
           stmt == format(SQL_STATEMENT, get_string(c, WHERE_CLAUSE_SUFFIX_KEY, <<>>))
           sql_alch_conf == with_fallback(get_scoped_conf(c), (EXTRACT_SQL :> stmt))
       IN  /\ _cluster' = get_string(c, CLUSTER_KEY, "")
           /\ sql_stmt' = stmt
           /\ alchemy_sql' = sql_alch_conf[EXTRACT_SQL]
    /\ _extract_iter' = InitialExtractIter
    /\ phase' = "ready"
    /\ UNCHANGED <<conf, rows, failAt, srcCalls, srcEnded, iterCreated, returned>>

(***************************************************************************)
(* extract()                                                               *)
(***************************************************************************)
\* the generator it together with the Row Source it pulls
MachineOf(it) ==
    [gen |-> it.gen, raw |-> it.raw, currkey |-> it.currkey, tgtkey |-> it.tgtkey,
     currvalue |-> it.currvalue, last_row |-> it.last_row,
     srcCalls |-> srcCalls, srcEnded |-> srcEnded]

\* the generator of the machine state s
IterOf(s) ==
    [gen |-> s.gen, raw |-> s.raw, currkey |-> s.currkey, tgtkey |-> s.tgtkey,
     currvalue |-> s.currvalue, last_row |-> s.last_row]

\* the state after the call whose next(self._extract_iter) ended as r;
\* fresh: the call made the iterator
extract_return(fresh, r) ==
    /\ _extract_iter' = <<IterOf(r.st)>>
    /\ iterCreated' = IF fresh THEN iterCreated + 1 ELSE iterCreated
    /\ srcCalls' = r.st.srcCalls
    /\ srcEnded' = r.st.srcEnded
    /\ returned' = Append(returned, ExtractOutcome(r))

extract ==
    /\ phase = "ready"
    /\ Len(SelectSeq(returned, NotEntity)) < MaxIdleCalls
    /\ extract_return(NotExtractIter(_extract_iter),
                      gen_next(MachineOf(IF NotExtractIter(_extract_iter)
                                         THEN _get_extract_iter
                                         ELSE _extract_iter[1]),
                               _cluster))
    /\ UNCHANGED <<conf, rows, failAt, phase, _cluster, sql_stmt, alchemy_sql>>

Next == init \/ extract

Spec == Init /\ [][Next]_vars

(***************************************************************************)
(* The same machine over the caller configurations: every combination of   *)
(* a supplied or absent cluster, where_clause_suffix and extract_sql of     *)
(* the collaborator's scope, with a fault-free result set of up to         *)
(* MaxConfRows rows.                                                       *)
(***************************************************************************)
\* the longest result set of SpecConf
MaxConfRows == 1

\* where_clause_suffix values: a clause, a clause of two tokens of which one
\* reads like the replacement field, and the empty string
Suffixes ==
    { <<"WHERE TABLE_SCHEMA = 'x'">>,
      <<"WHERE TABLE_NAME =", "{where_clause_suffix}">>,
      <<>> }

\* a statement supplied under the collaborator's scope
SuppliedSql == <<"SELECT 1">>

\* the configurations that leave key out or set it to one of values
Options(key, values) == {EmptyConf} \cup { (key :> v) : v \in values }

ConfsAll ==
    { a @@ b @@ c :
        a \in Options(CLUSTER_KEY, {"prod"}),
        b \in Options(WHERE_CLAUSE_SUFFIX_KEY, Suffixes),
        c \in Options(ScopedExtractSqlKey, {SuppliedSql}) }

InitConf ==
    /\ conf \in ConfsAll
    /\ \E n \in 0..MaxConfRows : rows \in [1..n -> BaseRows]
    /\ failAt = 0
    /\ phase = "constructed"
    /\ _cluster = ""
    /\ sql_stmt = <<>>
    /\ alchemy_sql = <<>>
    /\ _extract_iter = <<>>
    /\ srcCalls = 0
    /\ srcEnded = FALSE
    /\ iterCreated = 0
    /\ returned = <<>>

SpecConf == InitConf /\ [][Next]_vars

(***************************************************************************)
(* Vocabulary of the properties, defined on the result set and on the      *)
(* outcomes of the extract() calls only.                                   *)
(***************************************************************************)
HasKey(r) == {"schema", "name"} \subseteq DOMAIN r

\* rows i and j carry the same (schema, table_name) key
SameKey(i, j) ==
    /\ HasKey(rows[i]) /\ HasKey(rows[j])
    /\ rows[i]["schema"] = rows[j]["schema"]
    /\ rows[i]["name"] = rows[j]["name"]

\* row i starts a maximal contiguous run of rows sharing one key
RunStart(i) == i = 1 \/ ~SameKey(i - 1, i)

NumRuns == Cardinality({ i \in 1..Len(rows) : RunStart(i) })

\* the number of the run row i belongs to
RunNo(i) == Cardinality({ j \in 1..i : RunStart(j) })

\* the rows of the k-th run, in the order of the result set
RunRows(k) ==
    LET idx == { i \in 1..Len(rows) : RunNo(i) = k }
        lo == CHOOSE i \in idx : \A j \in idx : i <= j
    IN  [n \in 1..Cardinality(idx) |-> rows[lo + n - 1]]

AllWellFormed == \A i \in 1..Len(rows) : WellFormed(rows[i])

SchemaRank == ("s1" :> 1) @@ ("s2" :> 2)

NameRank == ("t1" :> 1) @@ ("t2" :> 2)

\* row a is not after row b in the order (schema, table_name, ordinal_position)
RowLeq(a, b) ==
    \/ SchemaRank[a["schema"]] < SchemaRank[b["schema"]]
    \/ /\ a["schema"] = b["schema"]
       /\ \/ NameRank[a["name"]] < NameRank[b["name"]]
          \/ /\ a["name"] = b["name"]
             /\ a["col_sort_order"] <= b["col_sort_order"]

SortedRows ==
    /\ AllWellFormed
    /\ \A i \in 1..(Len(rows) - 1) : RowLeq(rows[i], rows[i + 1])

IsEntity(o) == o.kind = "entity"

IsSentinel(o) == o.kind = "sentinel"

IsRaised(o) == o.kind = "raised"

\* the Table Entities returned so far, in return order
Entities ==
    LET es == SelectSeq(returned, IsEntity)
    IN  [k \in 1..Len(es) |-> es[k].table[1]]

SentinelSeen == \E i \in 1..Len(returned) : IsSentinel(returned[i])

RaisedSeen == \E i \in 1..Len(returned) : IsRaised(returned[i])

\* the number of Table Entities returned before the first sentinel
EntitiesBeforeSentinel ==
    Cardinality({ i \in 1..Len(returned) :
                    /\ IsEntity(returned[i])
                    /\ \A j \in 1..i : ~IsSentinel(returned[j]) })

(***************************************************************************)
(* C1: for a non-empty row sequence sorted by (schema, table_name,         *)
(* ordinal_position) that the Row Source delivers whole, the number of     *)
(* Table Entities returned before the first sentinel equals the number of  *)
(* maximal contiguous runs of rows sharing a (schema, table_name) key.     *)
(***************************************************************************)
C1_EntityCountEqualsRuns ==
    (rows # <<>> /\ SortedRows /\ failAt = 0 /\ SentinelSeen)
        => EntitiesBeforeSentinel = NumRuns

C1_Witness ==
    /\ rows # <<>> /\ SortedRows /\ failAt = 0 /\ SentinelSeen
    /\ NumRuns = 2 /\ Len(rows) = 3
    /\ EntitiesBeforeSentinel = 2

(***************************************************************************)
(* C2: in every Table Entity returned, the i-th Column Entity is built     *)
(* from the i-th row of the entity's run (name = col_name, type =          *)
(* col_type, sort_order = col_sort_order): input order, never reordered.   *)
(***************************************************************************)
C2_ColumnsInRowOrder ==
    \A k \in 1..Len(Entities) :
        /\ k <= NumRuns
        /\ LET run == RunRows(k)
               columns == Entities[k].columns
           IN  \A i \in 1..Len(columns) :
                  /\ i <= Len(run)
                  /\ WellFormed(run[i])
                  /\ columns[i].name = run[i]["col_name"]
                  /\ columns[i].type = run[i]["col_type"]
                  /\ columns[i].sort_order = run[i]["col_sort_order"]

\* an entity whose rows came in descending ordinal_position
C2_Witness ==
    \E k \in 1..Len(Entities) :
        /\ Len(Entities[k].columns) >= 2
        /\ Entities[k].columns[1].sort_order > Entities[k].columns[2].sort_order
        /\ Entities[k].columns[1].name = "b"

(***************************************************************************)
(* C3: once extract() has returned the sentinel on exhaustion, every later *)
(* extract() returns the sentinel too, and the Row Source is not called    *)
(* again.                                                                  *)
(***************************************************************************)
C3_SentinelIsFinal ==
    \A i \in 1..Len(returned) :
        (IsSentinel(returned[i]) /\ \A h \in 1..i : ~IsRaised(returned[h]))
            => \A j \in (i + 1)..Len(returned) :
                  /\ IsSentinel(returned[j])
                  /\ returned[j].srcCalls = returned[i].srcCalls

C3_Witness ==
    /\ ~RaisedSeen
    /\ Len(returned) >= 4
    /\ IsEntity(returned[1])
    /\ IsEntity(returned[2])
    /\ IsSentinel(returned[Len(returned) - 1])
    /\ IsSentinel(returned[Len(returned)])

(***************************************************************************)
(* C4: when the Row Source delivers an empty row sequence, the first       *)
(* extract() returns the sentinel and no Table Entity is ever returned.    *)
(***************************************************************************)
C4_EmptyInputOnlySentinel ==
    (rows = <<>> /\ failAt = 0)
        => \A i \in 1..Len(returned) : IsSentinel(returned[i])

C4_Witness == rows = <<>> /\ failAt = 0 /\ Len(returned) >= 1

(***************************************************************************)
(* C5: when one (schema, table_name) key occurs in two runs separated by   *)
(* rows of another key, every contiguous sub-run is returned as its own    *)
(* Table Entity holding that sub-run's columns only.                       *)
(***************************************************************************)
SplitKey ==
    \E i, j, k \in 1..Len(rows) :
        i < j /\ j < k /\ SameKey(i, k) /\ ~SameKey(i, j)

C5_SubRunsNotMerged ==
    (AllWellFormed /\ failAt = 0 /\ SplitKey)
        => /\ \A k \in 1..Len(Entities) :
                 /\ k <= NumRuns
                 /\ LET run == RunRows(k)
                        e == Entities[k]
                    IN  /\ e.schema = run[1]["schema"]
                        /\ e.name = run[1]["name"]
                        /\ Len(e.columns) = Len(run)
                        /\ \A i \in 1..Len(run) :
                              e.columns[i].name = run[i]["col_name"]
           /\ SentinelSeen => Len(Entities) = NumRuns

C5_Witness ==
    /\ AllWellFormed /\ failAt = 0 /\ SplitKey /\ SentinelSeen
    /\ Len(Entities) = 3
    /\ Entities[1].schema = Entities[3].schema
    /\ Entities[1].name = Entities[3].name

(***************************************************************************)
(* C6: a failure raised by the Row Source during a fetch, or a lookup      *)
(* failure on a row that lacks a field, is not caught: the extract() call  *)
(* that meets it raises it and returns neither a Table Entity nor the      *)
(* sentinel.  Rows are fetched and used in order, so the run meets the     *)
(* earliest fault of the result set.                                       *)
(***************************************************************************)
BadRows == { i \in 1..Len(rows) : ~WellFormed(rows[i]) }

FirstBad == IF BadRows = {} THEN 0 ELSE CHOOSE i \in BadRows : \A j \in BadRows : i <= j

HasFailure == failAt > 0 \/ FirstBad > 0

SourceFailsFirst == failAt > 0 /\ (FirstBad = 0 \/ failAt <= FirstBad)

\* the Row Source call at which the run breaks, and the failure it breaks with
FailurePos == IF SourceFailsFirst THEN failAt ELSE FirstBad

FailureKind == IF SourceFailsFirst THEN "SourceError" ELSE "KeyError"

C6_FailurePropagates ==
    HasFailure =>
        \A i \in 1..Len(returned) :
            (~IsEntity(returned[i]) /\ \A h \in 1..(i - 1) : IsEntity(returned[h]))
                => /\ IsRaised(returned[i])
                   /\ returned[i].error = FailureKind
                   /\ returned[i].table = <<>>
                   /\ returned[i].srcCalls = FailurePos

\* a fetch failure met after an entity was returned
C6_Witness ==
    /\ SourceFailsFirst
    /\ Len(returned) >= 2
    /\ IsEntity(returned[1])
    /\ IsRaised(returned[2])
    /\ returned[2].error = "SourceError"

\* a malformed row met after an entity was returned
C6_WitnessMalformed ==
    /\ ~SourceFailsFirst /\ FirstBad > 0
    /\ Len(returned) >= 2
    /\ IsEntity(returned[1])
    /\ IsRaised(returned[2])
    /\ returned[2].error = "KeyError"

(***************************************************************************)
(* C7: in every execution, also one broken by a fetch failure or by a      *)
(* malformed row in the middle of a run, every Table Entity returned holds *)
(* a column for every row of its maximal contiguous run, never a proper    *)
(* prefix of the run.                                                      *)
(***************************************************************************)
C7_NoIncompleteEntity ==
    \A k \in 1..Len(Entities) :
        /\ k <= NumRuns
        /\ Len(Entities[k].columns) = Len(RunRows(k))

\* the run was broken after the interrupted run had taken at least one row
C7_Witness ==
    /\ RaisedSeen
    /\ Len(Entities) = 1
    /\ NumRuns = 2
    /\ FailurePos = Len(Entities[1].columns) + 2
    /\ srcCalls = FailurePos

(***************************************************************************)
(* C8: the grouping iterator is made lazily: between init and the first    *)
(* extract() the instance holds no iterator and has made no Row Source     *)
(* call; the first extract() makes the iterator and no later call makes    *)
(* another.                                                                *)
(***************************************************************************)
C8_LazyIteratorOnce ==
    /\ (phase = "ready" /\ returned = <<>>)
          => (_extract_iter = <<>> /\ srcCalls = 0 /\ iterCreated = 0)
    /\ (Len(returned) >= 1)
          => (Len(_extract_iter) = 1 /\ iterCreated = 1)

C8_Witness == Len(returned) >= 3 /\ iterCreated = 1 /\ srcCalls >= 2

(***************************************************************************)
(* C9: every Table Entity returned has database "druid" and description    *)
(* "", and every Column Entity in it has description "".                   *)
(***************************************************************************)
C9_ConstantFields ==
    \A k \in 1..Len(Entities) :
        /\ Entities[k].database = "druid"
        /\ Entities[k].description = ""
        /\ \A i \in 1..Len(Entities[k].columns) :
              Entities[k].columns[i].description = ""

C9_Witness ==
    /\ CLUSTER_KEY \in DOMAIN conf
    /\ Len(Entities) >= 2
    /\ Len(Entities[1].columns) >= 2

(***************************************************************************)
(* C10: supplied value wins, else default: once init has run, the cluster  *)
(* label is the caller's `cluster` when the configuration has one and      *)
(* "gold" otherwise, and every Table Entity returned carries that label.   *)
(***************************************************************************)
ResolvedCluster == IF CLUSTER_KEY \in DOMAIN conf THEN conf[CLUSTER_KEY] ELSE "gold"

C10_ClusterLabel ==
    /\ phase = "ready" => _cluster = ResolvedCluster
    /\ \A k \in 1..Len(Entities) : Entities[k].cluster = ResolvedCluster

C10_Witness ==
    /\ CLUSTER_KEY \in DOMAIN conf
    /\ Len(Entities) >= 2
    /\ Entities[1].cluster = "prod"
    /\ Entities[2].cluster = "prod"

C10_WitnessDefault ==
    /\ CLUSTER_KEY \notin DOMAIN conf
    /\ Len(Entities) >= 2
    /\ Entities[2].cluster = "gold"

(***************************************************************************)
(* C11: for every configured where_clause_suffix, the statement generated  *)
(* at init holds the suffix verbatim, once, after the FROM clause and      *)
(* before the ORDER BY clause, and the rest of the template is unchanged.  *)
(***************************************************************************)
SelectClause ==
    "SELECT TABLE_SCHEMA as schema, TABLE_NAME as name, COLUMN_NAME as col_name, DATA_TYPE as col_type, ORDINAL_POSITION as col_sort_order"

FromClause == "FROM INFORMATION_SCHEMA.COLUMNS"

OrderByClause == "order by TABLE_SCHEMA, TABLE_NAME, CAST(ORDINAL_POSITION AS int)"

SuffixConfigured == WHERE_CLAUSE_SUFFIX_KEY \in DOMAIN conf

C11_SuffixBetweenFromAndOrderBy ==
    (phase = "ready" /\ SuffixConfigured)
        => sql_stmt = <<SelectClause, FromClause>>
                          \o conf[WHERE_CLAUSE_SUFFIX_KEY] \o <<OrderByClause>>

C11_Witness ==
    /\ phase = "ready" /\ SuffixConfigured
    /\ Len(conf[WHERE_CLAUSE_SUFFIX_KEY]) = 2
    /\ Len(sql_stmt) = 5
    /\ sql_stmt[4] = "{where_clause_suffix}"

(***************************************************************************)
(* C12: every Table Entity returned carries the schema and name of the     *)
(* last row of its run, and these are the (schema, table_name) key of      *)
(* every row it holds a column of; they never come from a row of a         *)
(* neighbouring run, such as the row read ahead that ended the run.        *)
(***************************************************************************)
C12_EntityNamedAfterOwnRun ==
    \A k \in 1..Len(Entities) :
        /\ k <= NumRuns
        /\ LET run == RunRows(k)
               e == Entities[k]
           IN  /\ HasKey(run[Len(run)])
               /\ e.schema = run[Len(run)]["schema"]
               /\ e.name = run[Len(run)]["name"]
               /\ \A i \in 1..Len(e.columns) :
                     /\ i <= Len(run)
                     /\ HasKey(run[i])
                     /\ run[i]["schema"] = e.schema
                     /\ run[i]["name"] = e.name

\* a run of two rows ended by a row of another schema, both returned
C12_Witness ==
    /\ Len(Entities) >= 2
    /\ Len(Entities[1].columns) = 2
    /\ Entities[1].schema # Entities[2].schema
    /\ Entities[1].name = Entities[2].name

(***************************************************************************)
(* C13: for every caller configuration, also one that sets options in the  *)
(* Row Source collaborator's own scope, the statement the collaborator is  *)
(* initialised with is the derived statement: the query template with the  *)
(* resolved where_clause_suffix in its field.                              *)
(***************************************************************************)
ResolvedSuffix ==
    IF SuffixConfigured THEN conf[WHERE_CLAUSE_SUFFIX_KEY] ELSE <<" ">>

DerivedStatement ==
    <<SelectClause, FromClause>> \o ResolvedSuffix \o <<OrderByClause>>

C13_CollaboratorGetsDerivedStatement ==
    phase = "ready" => alchemy_sql = DerivedStatement

(***************************************************************************)
(* C14: the output is finite: for a result set of N maximal key runs that  *)
(* is delivered without a failure, the first N extract() calls each return *)
(* a Table Entity and every call from N + 1 on returns the sentinel; the   *)
(* sentinel is never returned between two entities.                        *)
(***************************************************************************)
FailureFree == AllWellFormed /\ failAt = 0

C14_EntitiesThenSentinel ==
    FailureFree =>
        \A i \in 1..Len(returned) :
            IF i <= NumRuns THEN IsEntity(returned[i]) ELSE IsSentinel(returned[i])

C14_Witness ==
    /\ FailureFree
    /\ NumRuns = 3
    /\ Len(returned) = 4
    /\ IsEntity(returned[3])
    /\ IsSentinel(returned[4])

(***************************************************************************)
(* C15: no row is lost or duplicated: in a failure-free run the rows of    *)
(* the Table Entities returned so far, taken in return order (an entity's  *)
(* schema and name with each of its columns), are a prefix of the result   *)
(* set, and the whole result set once the sentinel has been returned.      *)
(***************************************************************************)
\* the rows entity e stands for
RowsOfEntity(e) ==
    [i \in 1..Len(e.columns) |->
        [schema |-> e.schema, name |-> e.name,
         col_name |-> e.columns[i].name, col_type |-> e.columns[i].type,
         col_sort_order |-> e.columns[i].sort_order]]

RECURSIVE RowsOfEntities(_)
RowsOfEntities(es) ==
    IF es = <<>> THEN <<>>
    ELSE RowsOfEntity(Head(es)) \o RowsOfEntities(Tail(es))

C15_NoRowLostOrDuplicated ==
    FailureFree =>
        LET got == RowsOfEntities(Entities)
        IN  /\ Len(got) <= Len(rows)
            /\ got = SubSeq(rows, 1, Len(got))
            /\ SentinelSeen => got = rows

\* the row read ahead at the end of the first run opens the second entity
C15_Witness ==
    /\ FailureFree /\ SentinelSeen
    /\ Len(rows) = 3
    /\ Len(Entities) = 2
    /\ Len(Entities[1].columns) = 1
    /\ Len(Entities[2].columns) = 2
    /\ Entities[2].columns[1].name = rows[2]["col_name"]

(***************************************************************************)
(* C16: extraction reads ahead at most one row: when extract() returns the *)
(* Table Entity of the k-th run, the Row Source has been called at most    *)
(* once more than there are rows in runs 1..k.                             *)
(***************************************************************************)
\* the number of rows in the runs 1..k
RowsThrough(k) == Cardinality({ j \in 1..Len(rows) : RunNo(j) <= k })

\* the number of entities among the first i outcomes
EntitiesUpTo(i) == Cardinality({ h \in 1..i : IsEntity(returned[h]) })

C16_LookaheadOfOneRow ==
    \A i \in 1..Len(returned) :
        IsEntity(returned[i])
            => returned[i].srcCalls <= RowsThrough(EntitiesUpTo(i)) + 1

\* the first entity is returned with one row read ahead and one row unread
C16_Witness ==
    /\ Len(rows) = 3 /\ NumRuns = 3
    /\ Len(returned) >= 1
    /\ IsEntity(returned[1])
    /\ returned[1].srcCalls = 2

(***************************************************************************)
(* C17: after an extract() call has raised, every later extract() returns  *)
(* the sentinel and the Row Source is not called again: the run is not     *)
(* resumed and no further Table Entity is returned.                        *)
(***************************************************************************)
C17_SentinelAfterFailure ==
    \A i \in 1..Len(returned) :
        IsRaised(returned[i])
            => \A j \in (i + 1)..Len(returned) :
                  /\ IsSentinel(returned[j])
                  /\ returned[j].srcCalls = returned[i].srcCalls

\* a malformed row broke the run with rows still unread
C17_Witness ==
    /\ Len(returned) >= 3
    /\ IsRaised(returned[Len(returned) - 2])
    /\ returned[Len(returned) - 2].error = "KeyError"
    /\ IsSentinel(returned[Len(returned)])
    /\ srcCalls < Len(rows)

(***************************************************************************)
(* C18: the Row Source is pulled in a single pass: once it has returned    *)
(* its end-of-data value, which it does at the call after the last row, it *)
(* is never called again, however many extract() calls follow.             *)
(***************************************************************************)
C18_NoCallAfterEndOfData ==
    srcEnded => srcCalls = Len(rows) + 1

C18_Witness ==
    /\ srcEnded
    /\ Len(Entities) >= 1
    /\ Len(SelectSeq(returned, IsSentinel)) >= 3

====
